---------------------------- MODULE Spec2Model ----------------------------
(***************************************************************************)
(* Model of tools/gas-analyzer.py (class GasAnalyzer).                     *)
(*                                                                         *)
(* Source text.  A contract source is modelled as the sequence of its      *)
(* lexical tokens, laid out canonically: one space between two adjacent    *)
(* word tokens, a newline after each ";", "{" and "}", and nothing else    *)
(* between tokens.  Word tokens are maximal runs of \w characters; the     *)
(* vocabulary holds no word that contains a keyword of a pattern as a      *)
(* proper part, other than the uintN types, and no quote character.        *)
(* Every regular expression of the source is an operator m_<name>(c, p)    *)
(* giving the end (exclusive) of the match of that expression that starts  *)
(* at token p of c, or 0 when none starts there; FindAll scans as          *)
(* re.findall does: leftmost match first, then on from its end.            *)
(***************************************************************************)
EXTENDS Integers, Sequences, FiniteSets, Bags, TLC

\* ------------------------------------------------------------ lexical layer

Punct == {"(", ")", "{", "}", "[", "]", "=", "==", ";", "."}

\* T(c, p): the token at p, "" past either end of the text
T(c, p) == IF p \in 1..Len(c) THEN c[p] ELSE ""

\* \w+ : a word token
IsWord(t) == t # "" /\ t \notin Punct

\* \d+ delimited by \b : a token made of digits only
Numbers == {"0", "1", "100"}

IsNumber(t) == t \in Numbers

\* the word tokens of the vocabulary that are one character long
ShortWords == {"a", "b", "i", "s", "t", "f", "x", "y", "E", "S", "0", "1"}

\* ^ under re.MULTILINE: the start of the text or just after a newline
BOL(c, p) == p = 1 \/ T(c, p - 1) \in {";", "{", "}"}

\* position of the first token t at or after p, 0 when there is none
RECURSIVE Find(_, _, _)
Find(c, p, t) ==
  IF p > Len(c) THEN 0
  ELSE IF c[p] = t THEN p
  ELSE Find(c, p + 1, t)

\* (uint\d*|int\d*|bool|address|bytes\d*|string) followed by \s+
StorageTypes == {"uint", "uint8", "uint32", "uint64", "uint128", "uint256",
                 "bool", "address", "bytes32", "string"}

\* r'^\s*(uint\d*|int\d*|bool|address|bytes\d*|string)\s+(?:public\s+|private\s+|internal\s+)?(\w+)'
m_storage_vars(c, p) ==
  IF BOL(c, p) /\ c[p] \in StorageTypes /\ IsWord(T(c, p + 1))
  THEN IF T(c, p + 1) \in {"public", "private", "internal"} /\ IsWord(T(c, p + 2))
       THEN p + 3
       ELSE p + 2
  ELSE 0

\* r'\w+\s*=\s*[^=]' : [^=] takes the first character of the token after "="
m_storage_writes(c, p) ==
  IF IsWord(c[p]) /\ T(c, p + 1) = "=" /\ T(c, p + 2) \notin {"", "=", "=="}
  THEN IF T(c, p + 2) \in ShortWords \/ T(c, p + 2) \in Punct THEN p + 3 ELSE p + 2
  ELSE 0

\* r'<kw>\s*\([^)]+\)\s*{([^}]+)}' for kw = for, while; the body always holds
\* the newline that follows "{"
m_loop(kw, c, p) ==
  IF c[p] = kw /\ T(c, p + 1) = "("
  THEN LET q == Find(c, p + 2, ")")
       IN  IF q > p + 2 /\ T(c, q + 1) = "{"
           THEN LET r == Find(c, q + 2, "}")
                IN  IF r > 0 THEN r + 1 ELSE 0
           ELSE 0
  ELSE 0

\* the group ([^}]+) of a loop match <<p, e>>: the tokens between "{" and "}"
LoopBody(c, m) == SubSeq(c, Find(c, m[1] + 2, ")") + 2, m[2] - 2)

\* r'\w+\s*\[\s*\w+\s*\]\s*=' (also the write pattern of the mapping detector)
m_indexed_assign(c, p) ==
  IF IsWord(c[p]) /\ T(c, p + 1) = "[" /\ IsWord(T(c, p + 2)) /\ T(c, p + 3) = "]"
     /\ T(c, p + 4) \in {"=", "=="}
  THEN p + 5
  ELSE 0

\* r'\w+\.\w+\s*\('
m_dotted_call(c, p) ==
  IF IsWord(c[p]) /\ T(c, p + 1) = "." /\ IsWord(T(c, p + 2)) /\ T(c, p + 3) = "("
  THEN p + 4
  ELSE 0

\* end of the optional clause (?:returns\s*\([^)]*\))? tried at k
AfterReturns(c, k) ==
  IF T(c, k) = "returns" /\ T(c, k + 1) = "(" /\ Find(c, k + 2, ")") > 0
  THEN Find(c, k + 2, ")") + 1
  ELSE k

\* r'function\s+(\w+)\s*\([^)]*\)\s*(external|public|internal|private)?\s*(view|pure|payable)?\s*(?:returns\s*\([^)]*\))?\s*{'
m_function(c, p) ==
  IF c[p] = "function" /\ IsWord(T(c, p + 1)) /\ T(c, p + 2) = "("
     /\ Find(c, p + 3, ")") > 0
  THEN LET q  == Find(c, p + 3, ")")
           k1 == IF T(c, q + 1) \in {"external", "public", "internal", "private"}
                 THEN q + 2 ELSE q + 1
           k2 == IF T(c, k1) \in {"view", "pure", "payable"} THEN k1 + 1 ELSE k1
           k3 == AfterReturns(c, k2)
       IN  IF T(c, k3) = "{" THEN k3 + 1 ELSE 0
  ELSE 0

\* r'delegatecall\s*\('
m_delegatecall(c, p) ==
  IF c[p] = "delegatecall" /\ T(c, p + 1) = "(" THEN p + 2 ELSE 0

\* r'\b<w>\b' for one word w; r'\buint\b(?!\d)' is the word "uint"
m_word(w, c, p) == IF c[p] = w THEN p + 1 ELSE 0

\* r'\bbytes\d*\b'
m_bytes(c, p) == IF c[p] \in {"bytes", "bytes32"} THEN p + 1 ELSE 0

\* r'\.push\s*\(' and r'\.pop\s*\('
m_method(name, c, p) ==
  IF c[p] = "." /\ T(c, p + 1) = name /\ T(c, p + 2) = "(" THEN p + 3 ELSE 0

\* r'\w+\s*\[\s*\d+\s*\]'
m_array_access(c, p) ==
  IF IsWord(c[p]) /\ T(c, p + 1) = "[" /\ IsNumber(T(c, p + 2)) /\ T(c, p + 3) = "]"
  THEN p + 4
  ELSE 0

\* r'\w+\s*\[\s*\w+\s*\](?!\s*=)'
m_mapping_reads(c, p) ==
  IF IsWord(c[p]) /\ T(c, p + 1) = "[" /\ IsWord(T(c, p + 2)) /\ T(c, p + 3) = "]"
     /\ T(c, p + 4) \notin {"=", "=="}
  THEN p + 4
  ELSE 0

\* r'(\w+)\s*=\s*([^;]+);' : the value runs to the first ";" and is not empty
m_assignment(c, p) ==
  IF IsWord(c[p]) /\ T(c, p + 1) \in {"=", "=="}
  THEN LET q == Find(c, p + 2, ";")
       IN  IF q > 0 /\ (q > p + 2 \/ T(c, p + 1) = "==") THEN q + 1 ELSE 0
  ELSE 0

\* the group ([^;]+) of an assignment match <<p, e>>
AssignedValue(c, m) ==
  (IF c[m[1] + 1] = "==" THEN <<"=">> ELSE <<>>) \o SubSeq(c, m[1] + 2, m[2] - 2)

\* re.search(r'\b(0x[0-9a-fA-F]+|\d+|true|false|"[^"]*")\b', value)
HasLiteral(value) ==
  \E k \in 1..Len(value) : IsNumber(value[k]) \/ value[k] \in {"true", "false", "0x1F"}

\* r'function\s+\w+\s*\([^)]*\)\s*public'
m_public_function(c, p) ==
  IF c[p] = "function" /\ IsWord(T(c, p + 1)) /\ T(c, p + 2) = "("
     /\ Find(c, p + 3, ")") > 0 /\ T(c, Find(c, p + 3, ")") + 1) = "public"
  THEN Find(c, p + 3, ")") + 2
  ELSE 0

\* r'require\s*\('
m_require(c, p) == IF c[p] = "require" /\ T(c, p + 1) = "(" THEN p + 2 ELSE 0

\* r'<kw>\s+\w+' for kw = error, event, emit
m_keyword_name(kw, c, p) == IF c[p] = kw /\ IsWord(T(c, p + 1)) THEN p + 2 ELSE 0

\* r'struct\s+\w+\s*{([^}]+)}'
m_struct(c, p) ==
  IF c[p] = "struct" /\ IsWord(T(c, p + 1)) /\ T(c, p + 2) = "{"
     /\ Find(c, p + 3, "}") > 0
  THEN Find(c, p + 3, "}") + 1
  ELSE 0

\* the group ([^}]+) of a struct match <<p, e>>
StructBody(c, m) == SubSeq(c, m[1] + 3, m[2] - 2)

\* r'uint(?:8|16|32|64|128)'
m_smaller_uint(c, p) ==
  IF c[p] \in {"uint8", "uint16", "uint32", "uint64", "uint128"} THEN p + 1 ELSE 0

\* re.findall, given for every token the end of the match that starts there
\* (0 for none): the matches <<start, end>>, leftmost first, none overlapping
\* another
RECURSIVE Scan(_, _)
Scan(ends, p) ==
  IF p > Len(ends) THEN <<>>
  ELSE IF ends[p] > 0 THEN <<<<p, ends[p]>>>> \o Scan(ends, ends[p])
  ELSE Scan(ends, p + 1)

FindAll(ends) == Scan(ends, 1)

\* the expressions of the source, each as its re.findall over a text
re_storage_vars(c)    == FindAll([p \in 1..Len(c) |-> m_storage_vars(c, p)])
re_storage_writes(c)  == FindAll([p \in 1..Len(c) |-> m_storage_writes(c, p)])
re_for_loops(c)       == FindAll([p \in 1..Len(c) |-> m_loop("for", c, p)])
re_while_loops(c)     == FindAll([p \in 1..Len(c) |-> m_loop("while", c, p)])
re_indexed_assign(c)  == FindAll([p \in 1..Len(c) |-> m_indexed_assign(c, p)])
re_dotted_call(c)     == FindAll([p \in 1..Len(c) |-> m_dotted_call(c, p)])
re_functions(c)       == FindAll([p \in 1..Len(c) |-> m_function(c, p)])
re_delegatecall(c)    == FindAll([p \in 1..Len(c) |-> m_delegatecall(c, p)])
re_word(w, c)         == FindAll([p \in 1..Len(c) |-> m_word(w, c, p)])
re_bytes(c)           == FindAll([p \in 1..Len(c) |-> m_bytes(c, p)])
re_method(name, c)    == FindAll([p \in 1..Len(c) |-> m_method(name, c, p)])
re_array_access(c)    == FindAll([p \in 1..Len(c) |-> m_array_access(c, p)])
re_mapping_reads(c)   == FindAll([p \in 1..Len(c) |-> m_mapping_reads(c, p)])
re_assignment(c)      == FindAll([p \in 1..Len(c) |-> m_assignment(c, p)])
re_public_function(c) == FindAll([p \in 1..Len(c) |-> m_public_function(c, p)])
re_require(c)         == FindAll([p \in 1..Len(c) |-> m_require(c, p)])
re_keyword_name(kw, c) == FindAll([p \in 1..Len(c) |-> m_keyword_name(kw, c, p)])
re_struct(c)          == FindAll([p \in 1..Len(c) |-> m_struct(c, p)])
re_smaller_uint(c)    == FindAll([p \in 1..Len(c) |-> m_smaller_uint(c, p)])

\* ------------------------------------------------------------- arithmetic

RECURSIVE SumOf(_, _)
\* sum(x[field] for x in seq)
SumOf(seq, field) ==
  IF seq = <<>> THEN 0 ELSE seq[1][field] + SumOf(Tail(seq), field)

Max(a, b) == IF a >= b THEN a ELSE b

B2N(b) == IF b THEN 1 ELSE 0

\* ---------------------------------------------------------------- detectors
\* Each detector takes the source text and the list it appends to, and gives
\* the list after the call.  A description is the f-string's template with
\* the values it interpolates.

analyze_storage_usage(c, hs) ==
  LET storage_vars   == Len(re_storage_vars(c))
      storage_writes == Len(re_storage_writes(c))
  IN  Append(hs, [type           |-> "STORAGE_USAGE",
                  severity       |-> IF storage_vars > 10 THEN "MEDIUM" ELSE "LOW",
                  description    |-> [fmt  |-> "Found {} storage variables, {} assignments",
                                      args |-> <<storage_vars, storage_writes>>],
                  estimated_cost |-> storage_vars * 20000 + storage_writes * 5000,
                  optimization   |-> "Consider packing variables, using memory for temporary data"])

\* for_loops + while_loops: the captured bodies, for loops first
Groups(c, ms) == [k \in 1..Len(ms) |-> LoopBody(c, ms[k])]

LoopBodies(c) == Groups(c, re_for_loops(c)) \o Groups(c, re_while_loops(c))

RECURSIVE ExpensiveInLoops(_)
\* the loop over for_loops + while_loops: two independent tests per loop,
\* each adding one
ExpensiveInLoops(loops) ==
  IF loops = <<>> THEN 0
  ELSE B2N(re_indexed_assign(loops[1]) # <<>>) + B2N(re_dotted_call(loops[1]) # <<>>)
       + ExpensiveInLoops(Tail(loops))

analyze_loop_patterns(c, hs) ==
  LET loops              == LoopBodies(c)
      expensive_in_loops == ExpensiveInLoops(loops)
      total_loops        == Len(loops)
  IN  IF total_loops > 0
      THEN Append(hs, [type           |-> "LOOP_OPERATIONS",
                       severity       |-> IF expensive_in_loops > 0 THEN "HIGH" ELSE "MEDIUM",
                       description    |-> [fmt  |-> "Found {} loops, {} with expensive operations",
                                           args |-> <<total_loops, expensive_in_loops>>],
                       estimated_cost |-> total_loops * 1000 + expensive_in_loops * 10000,
                       optimization   |-> "Minimize storage operations and external calls in loops"])
      ELSE hs

\* the function detector emitting only when it found something
analyze_function_patterns_if_any(c, hs) ==
  IF Len(re_functions(c)) + Len(re_dotted_call(c)) + Len(re_delegatecall(c)) > 0
  THEN Append(hs, [type           |-> "FUNCTION_CALLS",
                   severity       |-> "MEDIUM",
                   description    |-> [fmt  |-> "Found {} functions, {} external calls, {} delegate calls",
                                       args |-> <<Len(re_functions(c)), Len(re_dotted_call(c)),
                                                  Len(re_delegatecall(c))>>],
                   estimated_cost |-> Len(re_functions(c)) * 500 + Len(re_dotted_call(c)) * 700
                                      + Len(re_delegatecall(c)) * 700,
                   optimization   |-> "Use internal functions when possible, batch external calls"])
  ELSE hs

analyze_function_patterns(c, hs) ==
  LET functions      == Len(re_functions(c))
      external_calls == Len(re_dotted_call(c))
      delegate_calls == Len(re_delegatecall(c))
  IN  Append(hs, [type           |-> "FUNCTION_CALLS",
                  severity       |-> "MEDIUM",
                  description    |-> [fmt  |-> "Found {} functions, {} external calls, {} delegate calls",
                                      args |-> <<functions, external_calls, delegate_calls>>],
                  estimated_cost |-> functions * 500 + external_calls * 700 + delegate_calls * 700,
                  optimization   |-> "Use internal functions when possible, batch external calls"])

analyze_data_types(c, opts) ==
  LET type_counts == [uint256 |-> Len(re_word("uint256", c)), uint128 |-> Len(re_word("uint128", c)),
                      uint64  |-> Len(re_word("uint64", c)),  uint32  |-> Len(re_word("uint32", c)),
                      uint    |-> Len(re_word("uint", c)),    string  |-> Len(re_word("string", c)),
                      bytes   |-> Len(re_bytes(c))]
      o1 == IF type_counts.string > type_counts.bytes
            THEN Append(opts, [type        |-> "DATA_TYPE_OPTIMIZATION",
                               description |-> [fmt  |-> "Consider using bytes32 instead of string for fixed-length data ({} string usages found)",
                                                args |-> <<type_counts.string>>],
                               gas_savings |-> type_counts.string * 20])
            ELSE opts
  IN  IF type_counts.uint256 > type_counts.uint * 2
      THEN Append(o1, [type        |-> "DATA_TYPE_OPTIMIZATION",
                       description |-> [fmt  |-> "Consider using uint instead of uint256 where possible ({} uint256 usages found)",
                                        args |-> <<type_counts.uint256>>],
                       gas_savings |-> type_counts.uint256 * 5])
      ELSE o1

\* the array detector emitting whatever the counts are
analyze_array_operations_unguarded(c, hs) ==
  Append(hs, [type           |-> "ARRAY_OPERATIONS",
              severity       |-> "LOW",
              description    |-> [fmt  |-> "Array operations: {} push, {} pop, {} access",
                                  args |-> <<Len(re_method("push", c)), Len(re_method("pop", c)),
                                             Len(re_array_access(c))>>],
              estimated_cost |-> Len(re_method("push", c)) * 20000
                                 + Len(re_method("pop", c)) * 5000
                                 + Len(re_array_access(c)) * 800,
              optimization   |-> "Consider using mappings for large datasets, batch array operations"])

analyze_array_operations(c, hs) ==
  LET array_push     == Len(re_method("push", c))
      array_pop      == Len(re_method("pop", c))
      array_access   == Len(re_array_access(c))
      estimated_cost == array_push * 20000 + array_pop * 5000 + array_access * 800
  IN  IF array_push + array_pop + array_access > 0
      THEN Append(hs, [type           |-> "ARRAY_OPERATIONS",
                       severity       |-> IF estimated_cost > 50000 THEN "MEDIUM" ELSE "LOW",
                       description    |-> [fmt  |-> "Array operations: {} push, {} pop, {} access",
                                           args |-> <<array_push, array_pop, array_access>>],
                       estimated_cost |-> estimated_cost,
                       optimization   |-> "Consider using mappings for large datasets, batch array operations"])
      ELSE hs

\* the mapping detector leaving out its record when the array detector has
\* already reported
analyze_mapping_operations_after_arrays(c, hs) ==
  IF Len(re_mapping_reads(c)) + Len(re_indexed_assign(c)) > 0
     /\ "ARRAY_OPERATIONS" \notin {hs[k].type : k \in DOMAIN hs}
  THEN Append(hs, [type           |-> "MAPPING_OPERATIONS",
                   severity       |-> "LOW",
                   description    |-> [fmt  |-> "Mapping operations: {} reads, {} writes",
                                       args |-> <<Len(re_mapping_reads(c)), Len(re_indexed_assign(c))>>],
                   estimated_cost |-> Len(re_mapping_reads(c)) * 800
                                      + Len(re_indexed_assign(c)) * 20000,
                   optimization   |-> "Mappings are generally gas-efficient for key-value storage"])
  ELSE hs

analyze_mapping_operations(c, hs) ==
  LET mapping_reads  == Len(re_mapping_reads(c))
      mapping_writes == Len(re_indexed_assign(c))
  IN  IF mapping_reads + mapping_writes > 0
      THEN Append(hs, [type           |-> "MAPPING_OPERATIONS",
                       severity       |-> "LOW",
                       description    |-> [fmt  |-> "Mapping operations: {} reads, {} writes",
                                           args |-> <<mapping_reads, mapping_writes>>],
                       estimated_cost |-> mapping_reads * 800 + mapping_writes * 20000,
                       optimization   |-> "Mappings are generally gas-efficient for key-value storage"])
      ELSE hs

RECURSIVE ConstantCandidates(_, _, _)
\* the loop over variable_assignments: one record per assignment whose value
\* holds a literal
ConstantCandidates(c, ms, opts) ==
  IF ms = <<>> THEN opts
  ELSE ConstantCandidates(c, Tail(ms),
         IF HasLiteral(AssignedValue(c, ms[1]))
         THEN Append(opts, [type        |-> "CONSTANT_OPTIMIZATION",
                            description |-> [fmt  |-> "Variable {} could be marked as constant if not modified",
                                             args |-> <<c[ms[1][1]]>>],
                            gas_savings |-> 2300])
         ELSE opts)

_check_constant_variables(c, opts) == ConstantCandidates(c, re_assignment(c), opts)

_check_function_visibility(c, opts) ==
  LET public_functions == Len(re_public_function(c))
  IN  IF public_functions > 0
      THEN Append(opts, [type        |-> "VISIBILITY_OPTIMIZATION",
                         description |-> [fmt  |-> "Consider making functions internal/private if not called externally ({} public functions found)",
                                          args |-> <<public_functions>>],
                         gas_savings |-> public_functions * 50])
      ELSE opts

_check_require_statements(c, opts) ==
  LET require_statements == Len(re_require(c))
  IN  IF require_statements > 0 /\ re_keyword_name("error", c) = <<>>
      THEN Append(opts, [type        |-> "ERROR_OPTIMIZATION",
                         description |-> [fmt  |-> "Consider using custom errors instead of require strings ({} require statements found)",
                                          args |-> <<require_statements>>],
                         gas_savings |-> require_statements * 100])
      ELSE opts

\* the event check without its events > emits test
_check_event_usage_unguarded(c, opts) ==
  Append(opts, [type        |-> "EVENT_OPTIMIZATION",
                description |-> [fmt  |-> "Some events are declared but not emitted ({} events, {} emits)",
                                 args |-> <<Len(re_keyword_name("event", c)),
                                            Len(re_keyword_name("emit", c))>>],
                gas_savings |-> (Len(re_keyword_name("event", c))
                                 - Len(re_keyword_name("emit", c))) * 375])

_check_event_usage(c, opts) ==
  LET events == Len(re_keyword_name("event", c))
      emits  == Len(re_keyword_name("emit", c))
  IN  IF events > emits
      THEN Append(opts, [type        |-> "EVENT_OPTIMIZATION",
                         description |-> [fmt  |-> "Some events are declared but not emitted ({} events, {} emits)",
                                          args |-> <<events, emits>>],
                         gas_savings |-> (events - emits) * 375])
      ELSE opts

RECURSIVE PackableStructs(_, _, _)
\* the loop over structs; r'uint256' in a body is the word uint256
PackableStructs(c, ms, opts) ==
  IF ms = <<>> THEN opts
  ELSE PackableStructs(c, Tail(ms),
         IF Len(re_word("uint256", StructBody(c, ms[1]))) > 0
            /\ Len(re_smaller_uint(StructBody(c, ms[1]))) > 0
         THEN Append(opts, [type        |-> "STRUCT_PACKING",
                            description |-> [fmt  |-> "Struct may benefit from variable packing (reorder smaller types together)",
                                             args |-> <<>>],
                            gas_savings |-> 2000])
         ELSE opts)

_check_struct_packing(c, opts) == PackableStructs(c, re_struct(c), opts)

suggest_optimizations(c, opts) ==
  _check_struct_packing(c,
    _check_event_usage(c,
      _check_require_statements(c,
        _check_function_visibility(c,
          _check_constant_variables(c, opts)))))

\* -------------------------------------------------------------- aggregator

\* the score without its lower clamp
efficiency_score_unclamped(total_estimated_cost) == 100 - (total_estimated_cost \div 1000)

\* max(0, 100 - (total_estimated_cost // 1000))
efficiency_score(total_estimated_cost) == Max(0, 100 - (total_estimated_cost \div 1000))

\* The report dictionary.  Its two listings are the analyzer's own list
\* objects, held by reference, not copies: HotspotsRef and OptimizationsRef
\* name self.gas_hotspots and self.optimizations.  The timestamp, which no
\* computation reads, is left out.
HotspotsRef == "self.gas_hotspots"

OptimizationsRef == "self.optimizations"

\* the report with optimization_count taken from the wrong list
generate_gas_report_miscounted(file_path, hs, opts) ==
  [file_path     |-> file_path,
   summary       |-> [total_estimated_cost    |-> SumOf(hs, "estimated_cost"),
                      total_potential_savings |-> SumOf(opts, "gas_savings"),
                      efficiency_score        |-> efficiency_score(SumOf(hs, "estimated_cost")),
                      hotspot_count           |-> Len(hs),
                      optimization_count      |-> Len(hs)],
   gas_hotspots  |-> HotspotsRef,
   optimizations |-> OptimizationsRef]

generate_gas_report(file_path, hs, opts) ==
  [file_path     |-> file_path,
   summary       |-> [total_estimated_cost    |-> SumOf(hs, "estimated_cost"),
                      total_potential_savings |-> SumOf(opts, "gas_savings"),
                      efficiency_score        |-> efficiency_score(SumOf(hs, "estimated_cost")),
                      hotspot_count           |-> Len(hs),
                      optimization_count      |-> Len(opts)],
   gas_hotspots  |-> HotspotsRef,
   optimizations |-> OptimizationsRef]

\* json.dump(report): the listings are written out by value, as they are at
\* the time of the call
save_gas_report(report, hs, opts) ==
  [file_path     |-> report.file_path,
   summary       |-> report.summary,
   gas_hotspots  |-> hs,
   optimizations |-> opts]

\* the body of analyze_contract after a successful read: the seven calls, in
\* the order of the source
run_analyses(c, hs, opts) ==
  [gas_hotspots  |-> analyze_mapping_operations(c,
                       analyze_array_operations(c,
                         analyze_function_patterns(c,
                           analyze_loop_patterns(c,
                             analyze_storage_usage(c, hs))))),
   optimizations |-> suggest_optimizations(c, analyze_data_types(c, opts))]

\* analyze_contract on the outcome of open()/read(): file.error is "" and
\* file.text the content, or file.error names the exception raised.  Only
\* FileNotFoundError is caught; any other propagates to the caller.
Outcome(how, lists) ==
  [gas_hotspots |-> lists.gas_hotspots, optimizations |-> lists.optimizations, outcome |-> how]

\* analyze_contract going on with an empty text when the file is not found
analyze_contract_on_missing(file, hs, opts) ==
  IF file.error = "FileNotFoundError"
  THEN Outcome("returns report", run_analyses(<<>>, hs, opts))
  ELSE IF file.error # ""
  THEN Outcome("raises", [gas_hotspots |-> hs, optimizations |-> opts])
  ELSE Outcome("returns report", run_analyses(file.text, hs, opts))

analyze_contract(file, hs, opts) ==
  IF file.error = "FileNotFoundError"
  THEN Outcome("returns {}", [gas_hotspots |-> hs, optimizations |-> opts])
  ELSE IF file.error # ""
  THEN Outcome("raises", [gas_hotspots |-> hs, optimizations |-> opts])
  ELSE Outcome("returns report", run_analyses(file.text, hs, opts))

\* ------------------------------------------------------------------ inputs

\* Pieces of contract source, as token sequences
Fragments ==
  { <<"uint256", "public", "x", ";">>,
    <<"x", "=", "1", ";">>,
    <<"for", "(", "i", ")", "{", "a", "[", "i", "]", "=", "t", ".", "f", "(", ")", ";", "}">>,
    <<"for", "(", "i", ")", "{", "t", ".", "f", "(", ")", ";", "}">>,
    <<"while", "(", "x", ")", "{", "x", "=", "y", ";", "}">>,
    <<"function", "f", "(", ")", "public", "{", "require", "(", "x", ")", ";", "}">>,
    <<"event", "E", "(", ")", ";">>,
    <<"emit", "E", "(", ")", ";">>,
    <<"error", "Bad", "(", ")", ";">>,
    <<"struct", "S", "{", "uint256", "a", ";", "uint8", "b", ";", "}">>,
    <<"a", ".", "push", "(", "1", ")", ";", "a", "[", "0", "]", ";">>,
    <<"string", "s", ";">>,
    <<"t", ".", "delegatecall", "(", "x", ")", ";">> }

\* The source texts analysed: the empty text, each piece, each two pieces
Sources == {<<>>} \cup Fragments \cup {a \o b : a, b \in Fragments}

\* The paths handed to analyze_contract and what open()/read() does on each
Paths == {"contract.sol", "missing.sol", "locked.sol"}

\* ------------------------------------------------------------------- state

VARIABLES
  code,           \* the content of contract.sol
  gas_hotspots,   \* the list object self.gas_hotspots
  optimizations,  \* the list object self.optimizations
  reports,        \* the report dictionaries returned so far, oldest first
  saved,          \* the JSON documents save_gas_report has written, in order
  printed,        \* how many reports print_gas_report has printed
  calls           \* bag of the calls made on the analyzer since construction

vars == <<code, gas_hotspots, optimizations, reports, saved, printed, calls>>

\* with open(file_path, 'r', encoding='utf-8') as file: file.read()
ReadFile(path) ==
  CASE path = "contract.sol" -> [error |-> "", text |-> code]
    [] path = "missing.sol"  -> [error |-> "FileNotFoundError", text |-> <<>>]
    [] path = "locked.sol"   -> [error |-> "PermissionError", text |-> <<>>]

\* the list a report's listing field refers to
ListAt(ref) == IF ref = HotspotsRef THEN gas_hotspots ELSE optimizations

Call(op, arg) == [op |-> op, arg |-> arg]

\* GasAnalyzer(): both lists empty; contract.sol holds any of the sources
Init ==
  /\ code \in Sources
  /\ gas_hotspots = <<>>
  /\ optimizations = <<>>
  /\ reports = <<>>
  /\ saved = <<>>
  /\ printed = 0
  /\ calls = EmptyBag

\* generate_gas_report as a step: build the report from the lists as they
\* are, print it, save it, return it
Reported(report, hs, opts) ==
  /\ reports' = Append(reports, report)
  /\ printed' = printed + 1
  /\ saved' = Append(saved, save_gas_report(report, hs, opts))

\* the analyzer after analyze_contract(path) ended as r says
Analyzed(path, r) ==
  /\ gas_hotspots' = r.gas_hotspots
  /\ optimizations' = r.optimizations
  /\ IF r.outcome = "returns report"
     THEN Reported(generate_gas_report(path, r.gas_hotspots, r.optimizations),
                   r.gas_hotspots, r.optimizations)
     ELSE UNCHANGED <<reports, saved, printed>>
  /\ calls' = calls (+) SetToBag({Call("analyze_contract", path)})
  /\ UNCHANGED code

AnalyzeContract(path) ==
  Analyzed(path, analyze_contract(ReadFile(path), gas_hotspots, optimizations))

\* a detector called on its own with the contract's text: hs and opts are the
\* lists after the call
Detected(op, hs, opts) ==
  /\ gas_hotspots' = hs
  /\ optimizations' = opts
  /\ calls' = calls (+) SetToBag({Call(op, "code")})
  /\ UNCHANGED <<code, reports, saved, printed>>

AnalyzeStorageUsage ==
  Detected("analyze_storage_usage", analyze_storage_usage(code, gas_hotspots), optimizations)

AnalyzeLoopPatterns ==
  Detected("analyze_loop_patterns", analyze_loop_patterns(code, gas_hotspots), optimizations)

AnalyzeFunctionPatterns ==
  Detected("analyze_function_patterns", analyze_function_patterns(code, gas_hotspots), optimizations)

AnalyzeDataTypes ==
  Detected("analyze_data_types", gas_hotspots, analyze_data_types(code, optimizations))

AnalyzeArrayOperations ==
  Detected("analyze_array_operations", analyze_array_operations(code, gas_hotspots), optimizations)

AnalyzeMappingOperations ==
  Detected("analyze_mapping_operations", analyze_mapping_operations(code, gas_hotspots), optimizations)

SuggestOptimizations ==
  Detected("suggest_optimizations", gas_hotspots, suggest_optimizations(code, optimizations))

CheckConstantVariables ==
  Detected("_check_constant_variables", gas_hotspots, _check_constant_variables(code, optimizations))

CheckFunctionVisibility ==
  Detected("_check_function_visibility", gas_hotspots, _check_function_visibility(code, optimizations))

CheckRequireStatements ==
  Detected("_check_require_statements", gas_hotspots, _check_require_statements(code, optimizations))

CheckEventUsage ==
  Detected("_check_event_usage", gas_hotspots, _check_event_usage(code, optimizations))

CheckStructPacking ==
  Detected("_check_struct_packing", gas_hotspots, _check_struct_packing(code, optimizations))

GenerateGasReport ==
  /\ Reported(generate_gas_report("contract.sol", gas_hotspots, optimizations),
              gas_hotspots, optimizations)
  /\ calls' = calls (+) SetToBag({Call("generate_gas_report", "contract.sol")})
  /\ UNCHANGED <<code, gas_hotspots, optimizations>>

\* ---------------------------------------------------------- specifications

\* how many calls one analyzer receives
MaxCalls == 2

Budget == BagCardinality(calls) < MaxCalls

\* Any caller: any public or helper method, in any order, on one analyzer
Next ==
  \/ \E path \in Paths : Budget /\ AnalyzeContract(path)
  \/ Budget /\ AnalyzeStorageUsage
  \/ Budget /\ AnalyzeLoopPatterns
  \/ Budget /\ AnalyzeFunctionPatterns
  \/ Budget /\ AnalyzeDataTypes
  \/ Budget /\ AnalyzeArrayOperations
  \/ Budget /\ AnalyzeMappingOperations
  \/ Budget /\ SuggestOptimizations
  \/ Budget /\ CheckConstantVariables
  \/ Budget /\ CheckFunctionVisibility
  \/ Budget /\ CheckRequireStatements
  \/ Budget /\ CheckEventUsage
  \/ Budget /\ CheckStructPacking
  \/ Budget /\ GenerateGasReport

Spec == Init /\ [][Next]_vars

\* The detector set and the aggregation that follows it
Detectors ==
  {"analyze_storage_usage", "analyze_loop_patterns", "analyze_function_patterns",
   "analyze_data_types", "analyze_array_operations", "analyze_mapping_operations",
   "_check_constant_variables", "_check_function_visibility",
   "_check_require_statements", "_check_event_usage", "_check_struct_packing"}

NotYet(op) == ~BagIn(Call(op, "code"), calls)

AllDetected == \A d \in Detectors : BagIn(Call(d, "code"), calls)

\* One pass on a fresh analyzer with the detector calls in any order: each
\* detector once, then the report
NextAnyOrder ==
  \/ NotYet("analyze_storage_usage") /\ AnalyzeStorageUsage
  \/ NotYet("analyze_loop_patterns") /\ AnalyzeLoopPatterns
  \/ NotYet("analyze_function_patterns") /\ AnalyzeFunctionPatterns
  \/ NotYet("analyze_data_types") /\ AnalyzeDataTypes
  \/ NotYet("analyze_array_operations") /\ AnalyzeArrayOperations
  \/ NotYet("analyze_mapping_operations") /\ AnalyzeMappingOperations
  \/ NotYet("_check_constant_variables") /\ CheckConstantVariables
  \/ NotYet("_check_function_visibility") /\ CheckFunctionVisibility
  \/ NotYet("_check_require_statements") /\ CheckRequireStatements
  \/ NotYet("_check_event_usage") /\ CheckEventUsage
  \/ NotYet("_check_struct_packing") /\ CheckStructPacking
  \/ AllDetected /\ reports = <<>> /\ GenerateGasReport

\* as Init, with contract.sol holding the empty text or one piece
InitAnyOrder ==
  /\ code \in {<<>>} \cup Fragments
  /\ gas_hotspots = <<>>
  /\ optimizations = <<>>
  /\ reports = <<>>
  /\ saved = <<>>
  /\ printed = 0
  /\ calls = EmptyBag

SpecAnyOrder == InitAnyOrder /\ [][NextAnyOrder]_vars

\* ------------------------------------------------------------- properties

Range(seq) == {seq[k] : k \in DOMAIN seq}

Types(hs) == [k \in DOMAIN hs |-> hs[k].type]

IsPrefix(s, t) == Len(s) <= Len(t) /\ SubSeq(t, 1, Len(s)) = s

\* the records of a list, with how often each occurs
BagOfSeq(seq) == [x \in Range(seq) |-> Cardinality({k \in DOMAIN seq : seq[k] = x})]

\* the analyzer has received nothing but analyze_contract calls
OnlyAnalyzeContract == \A e \in BagToSet(calls) : e.op = "analyze_contract"

\* the analyzer has received exactly one call: analyze_contract on contract.sol
FreshPass == calls = SetToBag({Call("analyze_contract", "contract.sol")})

\* a report as a reader of the dictionary sees it now, and after the step
View(r) ==
  [summary       |-> r.summary,
   gas_hotspots  |-> ListAt(r.gas_hotspots),
   optimizations |-> ListAt(r.optimizations)]

ViewNext(r) ==
  [summary       |-> r.summary,
   gas_hotspots  |-> IF r.gas_hotspots = HotspotsRef THEN gas_hotspots' ELSE optimizations',
   optimizations |-> IF r.optimizations = HotspotsRef THEN gas_hotspots' ELSE optimizations']

\* C1: any two analyze_contract runs on the same source text, on the same
\* analyzer included, give reports with identical hotspot and optimization
\* sequences and identical summary totals.
C1_RerunIdentical ==
  OnlyAnalyzeContract =>
    \A i, j \in DOMAIN saved :
      /\ saved[i] = saved[j]
      /\ reports[i].summary = reports[j].summary

\* C2: once generate_gas_report has returned a report, no later step changes
\* that report's gas_hotspots list, optimizations list or summary.
C2_ReportImmutable ==
  [][\A k \in DOMAIN reports : ViewNext(reports[k]) = View(reports[k])]_vars

\* C3: every report's efficiency_score is 100 - floor(total_estimated_cost /
\* 1000) clamped into [0, 100]: always within 0..100, 100 below a total of
\* 1000 and 0 from a total of 100000 on.
C3_ScoreClamped ==
  \A k \in DOMAIN reports :
    LET total == reports[k].summary.total_estimated_cost
        score == reports[k].summary.efficiency_score
        raw   == 100 - (total \div 1000)
    IN  /\ score = (IF raw < 0 THEN 0 ELSE IF raw > 100 THEN 100 ELSE raw)
        /\ score \in 0..100
        /\ (total < 1000 => score = 100)
        /\ (total >= 100000 => score = 0)

\* a report whose total is 100000 or more exists, and one strictly between
C3_Witness ==
  /\ \E k \in DOMAIN reports : reports[k].summary.total_estimated_cost >= 100000
  /\ \E k \in DOMAIN reports : reports[k].summary.efficiency_score \in 1..99

\* the loops of a text that match the indexed-assignment pattern, the
\* dotted-call pattern or both, each counted once
ExpensiveLoopCount(c) ==
  Cardinality({k \in DOMAIN LoopBodies(c) :
                 \/ re_indexed_assign(LoopBodies(c)[k]) # <<>>
                 \/ re_dotted_call(LoopBodies(c)[k]) # <<>>})

\* C4: a loop is counted as expensive at most once, so the expensive count
\* never exceeds the loop count; the LOOP_OPERATIONS hotspot costs
\* loops * 1000 + expensive loops * 10000, HIGH if any loop is expensive and
\* MEDIUM otherwise; there is none when the text has no loop.
C4_LoopCountedOnce ==
  \A k \in DOMAIN gas_hotspots :
    gas_hotspots[k].type = "LOOP_OPERATIONS" =>
      /\ Len(LoopBodies(code)) > 0
      /\ gas_hotspots[k].description.args[2] <= gas_hotspots[k].description.args[1]
      /\ gas_hotspots[k].estimated_cost =
           Len(LoopBodies(code)) * 1000 + ExpensiveLoopCount(code) * 10000
      /\ gas_hotspots[k].severity =
           (IF ExpensiveLoopCount(code) > 0 THEN "HIGH" ELSE "MEDIUM")

\* C5: analysing the empty text on a fresh analyzer gives no LOOP_OPERATIONS,
\* ARRAY_OPERATIONS or MAPPING_OPERATIONS hotspot, no optimization record, a
\* total_estimated_cost of 0 and an efficiency_score of 100.
C5_EmptySource ==
  (code = <<>> /\ FreshPass) =>
    /\ Range(Types(gas_hotspots))
         \cap {"LOOP_OPERATIONS", "ARRAY_OPERATIONS", "MAPPING_OPERATIONS"} = {}
    /\ optimizations = <<>>
    /\ Len(reports) = 1
    /\ reports[1].summary.total_estimated_cost = 0
    /\ reports[1].summary.efficiency_score = 100
    /\ saved[1].optimizations = <<>>

C5_Witness == code = <<>> /\ FreshPass /\ Len(saved) = 1

\* C6: analyze_contract on a missing or unreadable file produces no report
\* and has no partial effect: nothing is appended to either list, nothing is
\* printed, nothing is saved.
C6_NoPartialEffect ==
  [][\A path \in Paths :
       (ReadFile(path).error # ""
        /\ calls' = calls (+) SetToBag({Call("analyze_contract", path)}))
       => UNCHANGED <<gas_hotspots, optimizations, reports, saved, printed>>]_vars

\* both failures have happened on one analyzer
C6_Witness ==
  /\ BagIn(Call("analyze_contract", "missing.sol"), calls)
  /\ BagIn(Call("analyze_contract", "locked.sol"), calls)
  /\ gas_hotspots = <<>> /\ saved = <<>>

\* C7: every estimated_cost and gas_savings, and both totals of every report,
\* are non-negative integers.
C7_NonNegative ==
  /\ \A k \in DOMAIN gas_hotspots : gas_hotspots[k].estimated_cost \in Nat
  /\ \A k \in DOMAIN optimizations : optimizations[k].gas_savings \in Nat
  /\ \A k \in DOMAIN reports :
       /\ reports[k].summary.total_estimated_cost \in Nat
       /\ reports[k].summary.total_potential_savings \in Nat

\* the event check has run on a text with more emit statements than events
C7_Witness ==
  /\ BagIn(Call("_check_event_usage", "code"), calls)
  /\ Len(re_keyword_name("emit", code)) > Len(re_keyword_name("event", code))

\* C8: the detectors run once each in any order give the same records, up to
\* listing order, as the order of analyze_contract, and the same summary.
C8_OrderIndependent ==
  AllDetected =>
    /\ BagOfSeq(gas_hotspots) = BagOfSeq(run_analyses(code, <<>>, <<>>).gas_hotspots)
    /\ BagOfSeq(optimizations) = BagOfSeq(run_analyses(code, <<>>, <<>>).optimizations)
    /\ \A k \in DOMAIN reports :
         reports[k].summary =
           generate_gas_report("contract.sol",
                               run_analyses(code, <<>>, <<>>).gas_hotspots,
                               run_analyses(code, <<>>, <<>>).optimizations).summary

\* a report made after the detectors ran in another order than the source's
C8_Witness ==
  /\ AllDetected
  /\ Len(reports) = 1
  /\ Len(gas_hotspots) >= 4
  /\ gas_hotspots # run_analyses(code, <<>>, <<>>).gas_hotspots

\* C9: each report's summary agrees with the listings it was returned with:
\* the totals are the sums over them and the counts are their lengths.
C9_SummaryConsistent ==
  \A k \in DOMAIN saved :
    /\ reports[k].summary = saved[k].summary
    /\ saved[k].summary.total_estimated_cost = SumOf(saved[k].gas_hotspots, "estimated_cost")
    /\ saved[k].summary.total_potential_savings = SumOf(saved[k].optimizations, "gas_savings")
    /\ saved[k].summary.hotspot_count = Len(saved[k].gas_hotspots)
    /\ saved[k].summary.optimization_count = Len(saved[k].optimizations)

C9_Witness ==
  \E k \in DOMAIN saved :
    /\ saved[k].summary.hotspot_count >= 3
    /\ saved[k].summary.optimization_count >= 1
    /\ saved[k].summary.hotspot_count # saved[k].summary.optimization_count
    /\ saved[k].summary.total_potential_savings > 0

\* place of a hotspot type in the order of detection
Rank(type) ==
  CASE type = "STORAGE_USAGE"      -> 1
    [] type = "LOOP_OPERATIONS"    -> 2
    [] type = "FUNCTION_CALLS"     -> 3
    [] type = "ARRAY_OPERATIONS"   -> 4
    [] type = "MAPPING_OPERATIONS" -> 5

\* C10: after one pass on a fresh analyzer the hotspots hold exactly one
\* STORAGE_USAGE and one FUNCTION_CALLS, at most one of each other type, in
\* the order STORAGE_USAGE, LOOP_OPERATIONS, FUNCTION_CALLS,
\* ARRAY_OPERATIONS, MAPPING_OPERATIONS, so between 2 and 5 of them; and no
\* step changes or reorders records already appended.
C10_DetectionOrder ==
  /\ [](FreshPass =>
         /\ \A i, j \in DOMAIN gas_hotspots :
              i < j => Rank(gas_hotspots[i].type) < Rank(gas_hotspots[j].type)
         /\ {"STORAGE_USAGE", "FUNCTION_CALLS"} \subseteq Range(Types(gas_hotspots))
         /\ Len(gas_hotspots) \in 2..5
         /\ reports[1].summary.hotspot_count = Len(gas_hotspots))
  /\ [][IsPrefix(gas_hotspots, gas_hotspots') /\ IsPrefix(optimizations, optimizations')]_vars

C10_Witness == FreshPass /\ Len(gas_hotspots) = 5
=============================================================================
